---- MODULE Spec2Model ----
(***************************************************************************)
(* Model of beetsplug/lastimportlastplayed.py: the batch driver            *)
(* import_lastfm_last_played, the reconciler process_tracks and the        *)
(* interactive resolver select_result / user_query.                        *)
(*                                                                         *)
(* Strings are sequences of one-character strings.  An optional value      *)
(* (Python None, an unset attribute, an unbound local) is a sequence of    *)
(* length 0 or 1: <<>> is "absent", <<v>> is "v".                          *)
(***************************************************************************)
EXTENDS Integers, Sequences, FiniteSets, TLC

(* ------------------------------ bounds -------------------------------- *)

\* most pages the remote service ever holds
MaxPages == 2
\* most events in one fetched page
MaxTracks == 2

(* ----------------------------- constants ------------------------------ *)

\* config 'retry_limit'
retry_limit == 3
\* song.get('last_played', 0)
LastPlayedDefault == 0
\* time.sleep(3) is not modelled: no clock

(* ------------------------------ strings ------------------------------- *)

Apostrophe == "'"
\* u'’'
RightQuote == "u2019"
Space == " "

None == <<>>
Some(v) == <<v>>

\* Python truthiness of an optional string: None and '' are false
Truthy(o) == o # None /\ o[1] # <<>>

RECURSIVE LStrip(_)
LStrip(s) == IF s # <<>> /\ Head(s) = Space THEN LStrip(Tail(s)) ELSE s

RECURSIVE RStrip(_)
RStrip(s) ==
    IF s # <<>> /\ s[Len(s)] = Space THEN RStrip(SubSeq(s, 1, Len(s) - 1)) ELSE s

\* str.strip()
Strip(s) == RStrip(LStrip(s))

\* title.replace("'", u'’')
ReplaceQuote(s) == [k \in DOMAIN s |-> IF s[k] = Apostrophe THEN RightQuote ELSE s[k]]

DigitValue(c) ==
    CASE c = "0" -> 0 [] c = "1" -> 1 [] c = "2" -> 2 [] c = "3" -> 3 [] c = "4" -> 4
      [] c = "5" -> 5 [] c = "6" -> 6 [] c = "7" -> 7 [] c = "8" -> 8 [] c = "9" -> 9

Digits == {"0", "1", "2", "3", "4", "5", "6", "7", "8", "9"}

RECURSIVE ParseDigits(_, _)
ParseDigits(s, acc) ==
    IF s = <<>> THEN acc ELSE ParseDigits(Tail(s), acc * 10 + DigitValue(Head(s)))

\* int(text): <<n>> for an optionally signed run of digits with surrounding
\* whitespace, <<>> where Python raises ValueError
ParseInt(text) ==
    LET s == Strip(text)
        neg == s # <<>> /\ Head(s) = "-"
        body == IF s # <<>> /\ Head(s) \in {"-", "+"} THEN Tail(s) ELSE s
    IN  IF body = <<>> \/ \E k \in DOMAIN body : body[k] \notin Digits
        THEN None
        ELSE Some(IF neg THEN 0 - ParseDigits(body, 0) ELSE ParseDigits(body, 0))

\* str.lower() on the answers the prompts compare
Lower(s) == [k \in DOMAIN s |-> IF s[k] = "Y" THEN "y" ELSE IF s[k] = "S" THEN "s" ELSE s[k]]

\* pattern in value
Contains(value, pattern) ==
    \E k \in 0..(Len(value) - Len(pattern)) :
        SubSeq(value, k + 1, k + Len(pattern)) = pattern

(* ------------------------------ catalog ------------------------------- *)

ItemIds == {1, 2, 3}
NoSong == 0

\* The library the run starts from: item 1 has its own MusicBrainz id, a
\* typographic apostrophe in its title and a last_played from an earlier
\* import; items 2 and 3 are duplicates that share one MusicBrainz id and
\* have never been played.
InitialItems ==
    [id \in ItemIds |->
        CASE id = 1 -> [mb_trackid |-> <<"m", "1">>, artist |-> <<"a">>,
                        title |-> <<"t", RightQuote>>, album |-> <<"b">>,
                        last_played |-> Some(7)]
          [] id = 2 -> [mb_trackid |-> <<"m", "2">>, artist |-> <<"a">>,
                        title |-> <<"t">>, album |-> <<"b">>,
                        last_played |-> None]
          [] id = 3 -> [mb_trackid |-> <<"m", "2">>, artist |-> <<"a">>,
                        title |-> <<"t">>, album |-> <<"c">>,
                        last_played |-> None]]

\* dbcore.query.MatchQuery(field, pattern)
MatchQuery(item, fld, pattern) == item[fld] = pattern

\* dbcore.query.SubstringQuery(field, pattern)
SubstringQuery(item, fld, pattern) == Contains(item[fld], pattern)

RECURSIVE SortedSeq(_)
SortedSeq(S) ==
    IF S = {} THEN <<>>
    ELSE LET m == CHOOSE x \in S : \A y \in S : x <= y
         IN  <<m>> \o SortedSeq(S \ {m})

\* Results.get(): the first row or None
Get(res) == IF res = <<>> THEN NoSong ELSE res[1]

(* ------------------------------- events ------------------------------- *)

Track(mbid, artist, title, album, timestamp) ==
    [mbid |-> mbid, artist |-> artist, title |-> title, album |-> album,
     timestamp |-> timestamp]

\* The play events the remote service may report.
EventPool ==
    { \* identifier of item 1 (padded), newer than any stored value
      Track(Some(<<" ", "m", "1">>), Some(<<"a">>), Some(<<"t">>), Some(<<"b">>), <<"1", "0">>),
      \* identifier shared by items 2 and 3, no album
      Track(Some(<<"m", "2">>), Some(<<"a">>), Some(<<"t">>), None, <<"5">>),
      \* no identifier, artist/album/title match items 1 and 2
      Track(None, Some(<<"a">>), Some(<<"t">>), Some(<<"b">>), <<"5">>),
      \* no identifier, unknown album, apostrophe in the title
      Track(Some(<<>>), Some(<<"a", " ">>), Some(<<"t", Apostrophe>>), Some(<<"x">>), <<"1", "0">>),
      \* nothing matches, no album, no identifier
      Track(None, Some(<<"z">>), Some(<<"t">>), None, <<"1", "0">>),
      \* nothing matches, album and unknown identifier
      Track(Some(<<"m", "9">>), Some(<<"z">>), Some(<<"t">>), Some(<<"b">>), <<"1", "0">>),
      \* no timestamp
      Track(Some(<<"m", "1">>), Some(<<"a">>), Some(<<"t">>), Some(<<"b">>), <<>>) }

RECURSIVE SeqsUpTo(_, _)
SeqsUpTo(S, n) ==
    IF n = 0 THEN {<<>>}
    ELSE LET shorter == SeqsUpTo(S, n - 1)
         IN  shorter \cup {Append(s, x) : s \in shorter, x \in S}

\* the non-empty pages a response may carry
Pages == SeqsUpTo(EventPool, MaxTracks) \ {<<>>}


(* ------------------------------- inputs ------------------------------- *)

\* what the user may type at 'Your choice?'
ChoiceInputs ==
    { <<"s">>, <<"e">>, <<"x">>, <<"0">>, <<" ", "1">>, <<"2">>, <<"3">>, <<"-", "1">> }

\* what the user may type at 'No matches, manual query? y / [n]'
YesNoInputs == { <<"y">>, <<"Y">>, <<"n">>, <<>> }

\* what lib.items(query, sort) may return for a query string the user types:
\* any selection of items, in the library's order
ManualResults == {SortedSeq(S) : S \in SUBSET ItemIds}

(* ------------------------------- state -------------------------------- *)

VARIABLES
    pc,                 \* position of the run
    page_total, page_current, retry,
    found_total, not_updated_total, unknown_total,
    tracks, idx,        \* the page being processed and the loop position in it
    total_found, not_updated, total_fails,
    song, skip, title,  \* locals of process_tracks that outlive a statement
    results, choice,    \* locals of select_result
    ret,                \* the statement of process_tracks the resolver returns to
    queried,            \* the strategies queried for the current event, in order
    lib,                \* the catalog: item id -> fields
    remote_total,       \* pages the remote service holds
    db_locked,          \* another process holds the database lock
    FUZZY_AVAIL,
    ask_user_query

driverVars == <<page_total, page_current, retry, found_total, not_updated_total, unknown_total>>
pageVars == <<tracks, idx, total_found, not_updated, total_fails>>
envVars == <<remote_total, db_locked, FUZZY_AVAIL, ask_user_query>>
vars == <<pc, driverVars, pageVars, song, skip, title, results, choice, ret, queried,
          lib, envVars>>

Init ==
    /\ pc = "fetch"
    /\ page_total = 1
    /\ page_current = 0
    /\ retry = 0
    /\ found_total = 0
    /\ not_updated_total = 0
    /\ unknown_total = 0
    /\ tracks = <<>>
    /\ idx = 0
    /\ total_found = 0
    /\ not_updated = 0
    /\ total_fails = 0
    /\ song = NoSong
    /\ skip = None
    /\ title = <<>>
    /\ results = <<>>
    /\ choice = None
    /\ ret = "none"
    /\ queried = <<>>
    /\ lib = InitialItems
    /\ remote_total \in 0..MaxPages
    /\ db_locked = FALSE
    /\ FUZZY_AVAIL \in BOOLEAN
    /\ ask_user_query \in BOOLEAN

(* ------------------------ import_lastfm_last_played ------------------- *)

\* mutant: 'page_current += 1' is missing
NextPageStuck(pt) ==
    /\ page_current' = page_current
    /\ retry' = 0
    /\ pc' = IF page_current < pt THEN "fetch" ELSE "done"

\* the loop test 'while page_current < page_total' after 'page_current += 1'
NextPage(pt) ==
    /\ page_current' = page_current + 1
    /\ retry' = 0
    /\ pc' = IF page_current + 1 < pt THEN "fetch" ELSE "done"

\* mutant: the total a response reports is dropped
FetchStepKeepsTotal(tr, pt) ==
    /\ page_total' = page_total
    /\ UNCHANGED <<found_total, not_updated_total, unknown_total>>
    /\ UNCHANGED <<total_found, not_updated, total_fails>>
    /\ UNCHANGED <<song, skip, title, results, choice, ret, queried, lib, envVars>>
    /\ IF page_total < 1 /\ retry = retry_limit
       THEN /\ pc' = "no_data"
            /\ UNCHANGED <<page_current, retry, tracks, idx>>
       ELSE IF tr # <<>>
       THEN /\ pc' = "track"
            /\ tracks' = tr
            /\ idx' = 1
            /\ retry' = 0
            /\ UNCHANGED page_current
       ELSE /\ UNCHANGED <<tracks, idx>>
            /\ IF retry + 1 < retry_limit
               THEN /\ retry' = retry + 1
                    /\ pc' = "fetch"
                    /\ UNCHANGED page_current
               ELSE NextPage(page_total)

\* one pass of the body of 'for retry in range(0, retry_limit)' once
\* fetch_tracks has returned tr, pt or raised (tr empty, pt unchanged)
FetchStep(tr, pt) ==
    /\ page_total' = pt
    /\ UNCHANGED <<found_total, not_updated_total, unknown_total>>
    /\ UNCHANGED <<total_found, not_updated, total_fails>>
    /\ UNCHANGED <<song, skip, title, results, choice, ret, queried, lib, envVars>>
    /\ IF pt < 1 /\ retry = retry_limit
       THEN /\ pc' = "no_data"
            /\ UNCHANGED <<page_current, retry, tracks, idx>>
       ELSE IF tr # <<>>
       THEN \* process_tracks starts; 'break' follows it, so retry is dead
            /\ pc' = "track"
            /\ tracks' = tr
            /\ idx' = 1
            /\ retry' = 0
            /\ UNCHANGED page_current
       ELSE /\ UNCHANGED <<tracks, idx>>
            /\ IF retry + 1 < retry_limit
               THEN /\ retry' = retry + 1
                    /\ pc' = "fetch"
                    /\ UNCHANGED page_current
               ELSE NextPage(pt)

\* fetch_tracks raises pylast.WSError
FetchFails ==
    /\ pc = "fetch"
    /\ FetchStep(<<>>, page_total)

\* fetch_tracks returns the page and the total the service reports
FetchResponds ==
    /\ pc = "fetch"
    /\ \E tr \in (IF page_current + 1 <= remote_total THEN Pages ELSE {<<>>}) :
          FetchStep(tr, remote_total)

(* ---------------------------- process_tracks -------------------------- *)

t == tracks[idx]
trackid == IF Truthy(t.mbid) THEN Strip(t.mbid[1]) ELSE <<>>
artist == IF Truthy(t.artist) THEN Strip(t.artist[1]) ELSE <<>>
album == IF Truthy(t.album) THEN Some(Strip(t.album[1])) ELSE None
timestamp == ParseInt(t.timestamp)[1]

\* lib.items(query): the ids of the matching items, in id order
Items(matching) == SortedSeq(matching)

Outcome(s, k) == IF s # NoSong THEN "match" ELSE IF k THEN "skip" ELSE "none"

Pending(strategy) == Append(queried, [strategy |-> strategy, outcome |-> "pending"])

SetOutcome(log, o) ==
    IF log = <<>> THEN log ELSE [log EXCEPT ![Len(log)].outcome = o]

Resume(npc, nsong, nskip, nresults, nret, nlog) ==
    /\ pc' = npc
    /\ song' = nsong
    /\ skip' = nskip
    /\ results' = nresults
    /\ ret' = nret
    /\ queried' = nlog

\* 'song, skip = select_result(...)' completes at statement r
Return(s, k, r, log) == Resume(r, s, Some(k), <<>>, "none", SetOutcome(log, Outcome(s, k)))

\* mutant: zero candidates always return no match, 'ask_query' ignored
select_result_no_manual(res, askq, r, log) ==
    IF Len(res) = 0
    THEN Return(NoSong, FALSE, r, log)
    ELSE IF Len(res) = 1
    THEN Return(res[1], FALSE, r, log)
    ELSE Resume("choice", song, skip, res, r, log)

\* select_result(res, lib, askq) called for the statement that continues at r
select_result(res, askq, r, log) ==
    IF Len(res) = 0
    THEN IF askq
         THEN Resume("ask_manual", song, skip, <<>>, r, log)
         ELSE Return(NoSong, FALSE, r, log)
    ELSE IF Len(res) = 1
    THEN Return(res[1], FALSE, r, log)
    ELSE Resume("choice", song, skip, res, r, log)

\* mutant: 'unknown_total += found'
ProcessTracksReturnMixed ==
    /\ pc = "track"
    /\ idx > Len(tracks)
    /\ found_total' = found_total + total_found
    /\ not_updated_total' = not_updated_total + not_updated
    /\ unknown_total' = unknown_total + total_found
    /\ NextPage(page_total)
    /\ tracks' = <<>>
    /\ idx' = 0
    /\ total_found' = 0
    /\ not_updated' = 0
    /\ total_fails' = 0
    /\ song' = NoSong
    /\ skip' = None
    /\ title' = <<>>
    /\ choice' = None
    /\ queried' = <<>>
    /\ UNCHANGED <<page_total, results, ret, lib, envVars>>

\* the page is exhausted: process_tracks returns, the driver adds the
\* tallies, leaves the retry loop and moves to the next page
ProcessTracksReturn ==
    /\ pc = "track"
    /\ idx > Len(tracks)
    /\ found_total' = found_total + total_found
    /\ not_updated_total' = not_updated_total + not_updated
    /\ unknown_total' = unknown_total + total_fails
    /\ NextPage(page_total)
    /\ tracks' = <<>>
    /\ idx' = 0
    /\ total_found' = 0
    /\ not_updated' = 0
    /\ total_fails' = 0
    /\ song' = NoSong
    /\ skip' = None
    /\ title' = <<>>
    /\ choice' = None
    /\ queried' = <<>>
    /\ UNCHANGED <<page_total, results, ret, lib, envVars>>

\* head of 'for t in tracks' down to the query by MusicBrainz id
NextTrack ==
    /\ pc = "track"
    /\ idx <= Len(tracks)
    /\ UNCHANGED <<driverVars, tracks, total_found, not_updated, total_fails>>
    /\ UNCHANGED <<skip, results, ret, lib, envVars>>
    /\ choice' = None
    /\ IF t.timestamp = <<>>
       THEN /\ idx' = idx + 1
            /\ pc' = "track"
            /\ queried' = <<>>
            /\ UNCHANGED <<song, title>>
       ELSE /\ idx' = idx
            /\ pc' = "s2"
            /\ title' = (IF Truthy(t.title) THEN Strip(t.title[1]) ELSE <<>>)
            /\ IF trackid # <<>>
               THEN LET found == Get(Items({id \in ItemIds : MatchQuery(lib[id], "mb_trackid", trackid)}))
                    IN  /\ song' = found
                        /\ queried' = <<[strategy |-> 1, outcome |-> Outcome(found, FALSE)]>>
               ELSE /\ song' = NoSong
                    /\ queried' = <<>>

\* mutant: 'if song is None and <avail>:' without 'not skip'
CascadeGuardNoSkip(avail) ==
    IF song # NoSong \/ ~avail THEN "pass" ELSE "run"

\* the condition of a cascade statement: 'song is None and <avail> and not skip'
CascadeGuard(avail) ==
    IF song # NoSong \/ ~avail THEN "pass"
    ELSE IF skip = None THEN "crash"
    ELSE IF skip[1] THEN "pass" ELSE "run"

\* one 'if song is None and ... and not skip:' statement with its query
CascadeStep(here, next, strategy, avail, newtitle, res) ==
    /\ pc = here
    /\ UNCHANGED <<driverVars, pageVars, choice, lib, envVars>>
    /\ LET g == CascadeGuard(avail)
       IN  IF g = "run"
           THEN /\ title' = newtitle
                /\ select_result(res, FALSE, next, Pending(strategy))
           ELSE /\ pc' = (IF g = "crash" THEN "crashed" ELSE next)
                /\ UNCHANGED <<song, skip, title, results, ret, queried>>

\* mutant: 'if album:' without 'song is None'
TryAlbumAlways ==
    /\ pc = "s2"
    /\ UNCHANGED <<driverVars, pageVars, choice, lib, envVars, title>>
    /\ IF Truthy(album)
       THEN select_result(
                Items({id \in ItemIds : /\ SubstringQuery(lib[id], "artist", artist)
                                      /\ SubstringQuery(lib[id], "album", album[1])
                                      /\ SubstringQuery(lib[id], "title", title)}),
                FALSE, "s3", Pending(2))
       ELSE /\ pc' = "s3"
            /\ UNCHANGED <<song, skip, results, ret, queried>>

\* 'if song is None and album:' artist, album and title
TryAlbum ==
    /\ pc = "s2"
    /\ UNCHANGED <<driverVars, pageVars, choice, lib, envVars, title>>
    /\ IF song = NoSong /\ Truthy(album)
       THEN select_result(
                Items({id \in ItemIds : /\ SubstringQuery(lib[id], "artist", artist)
                                      /\ SubstringQuery(lib[id], "album", album[1])
                                      /\ SubstringQuery(lib[id], "title", title)}),
                FALSE, "s3", Pending(2))
       ELSE /\ pc' = "s3"
            /\ UNCHANGED <<song, skip, results, ret, queried>>

\* artist and title
TryArtistTitle ==
    CascadeStep("s3", "s4", 3, TRUE, title,
        Items({id \in ItemIds : /\ SubstringQuery(lib[id], "artist", artist)
                              /\ SubstringQuery(lib[id], "title", title)}))

\* artist and title with the apostrophe replaced
TryQuote ==
    CascadeStep("s4", "s5", 4, TRUE, ReplaceQuote(title),
        Items({id \in ItemIds : /\ SubstringQuery(lib[id], "artist", artist)
                              /\ SubstringQuery(lib[id], "title", ReplaceQuote(title))}))

\* FuzzyQuery accepts some set of items; which, the fuzzy plugin decides
TryFuzzyTitle ==
    \E F \in SUBSET ItemIds :
        CascadeStep("s5", "s6", 5, FUZZY_AVAIL, title,
            Items({id \in ItemIds : SubstringQuery(lib[id], "artist", artist) /\ id \in F}))

TryFuzzyArtist ==
    \E F \in SUBSET ItemIds :
        CascadeStep("s6", "s7", 6, FUZZY_AVAIL, title,
            Items({id \in ItemIds : id \in F /\ SubstringQuery(lib[id], "title", title)}))

TryFuzzyBoth ==
    \E F \in SUBSET ItemIds :
        CascadeStep("s7", "s8", 7, FUZZY_AVAIL, title, SortedSeq(F))

\* mutant: 'if song is None and ask_user_query:' without 'not skip'
TryManualIgnoringSkip ==
    /\ pc = "s8"
    /\ UNCHANGED <<driverVars, pageVars, choice, lib, envVars, title>>
    /\ IF CascadeGuardNoSkip(ask_user_query) = "run"
       THEN Resume("ask_manual", song, skip, <<>>, "update", Pending(8))
       ELSE /\ pc' = "update"
            /\ UNCHANGED <<song, skip, results, ret, queried>>

\* 'if song is None and ask_user_query and not skip: user_query(lib, True)'
TryManual ==
    /\ pc = "s8"
    /\ UNCHANGED <<driverVars, pageVars, choice, lib, envVars, title>>
    /\ LET g == CascadeGuard(ask_user_query)
       IN  IF g = "run"
           THEN Resume("ask_manual", song, skip, <<>>, "update", Pending(8))
           ELSE /\ pc' = (IF g = "crash" THEN "crashed" ELSE "update")
                /\ UNCHANGED <<song, skip, results, ret, queried>>


(* ------------------------- select_result, user_query ------------------ *)

\* mutant: an unparseable answer leaves the loop with no match
ChooseNoReprompt(inp) ==
    LET num_res == Len(results)
        n == ParseInt(inp)
    IN  IF inp = <<"s">>
        THEN Return(NoSong, TRUE, ret, queried)
        ELSE IF inp = <<"e">>
        THEN Resume("query_str", song, skip, <<>>, ret, queried)
        ELSE IF n = None
        THEN Return(NoSong, FALSE, ret, queried)
        ELSE IF n[1] >= num_res \/ n[1] < 0
        THEN UNCHANGED <<pc, song, skip, results, ret, queried>>
        ELSE Return(results[n[1] + 1], FALSE, ret, queried)

\* the answer to 'Your choice? (0 - n, "s" to skip, "e" for custom query)'
Choose(inp) ==
    LET num_res == Len(results)
        n == ParseInt(inp)
    IN  IF inp = <<"s">>
        THEN Return(NoSong, TRUE, ret, queried)
        ELSE IF inp = <<"e">>
        THEN Resume("query_str", song, skip, <<>>, ret, queried)
        ELSE IF n = None
        THEN UNCHANGED <<pc, song, skip, results, ret, queried>>
        ELSE IF n[1] >= num_res \/ n[1] < 0
        THEN UNCHANGED <<pc, song, skip, results, ret, queried>>
        ELSE Return(results[n[1] + 1], FALSE, ret, queried)

Choice ==
    /\ pc = "choice"
    /\ UNCHANGED <<driverVars, pageVars, title, lib, envVars>>
    /\ \E inp \in ChoiceInputs :
          /\ choice' = Some(inp)
          /\ Choose(inp)

\* user_query with ask_query: 'No matches, manual query? y / [n]'
AskManual ==
    /\ pc = "ask_manual"
    /\ UNCHANGED <<driverVars, pageVars, title, choice, lib, envVars>>
    /\ \E str_do_query \in YesNoInputs :
          IF Lower(str_do_query) # <<"y">>
          THEN Return(NoSong, FALSE, ret, queried)
          ELSE Resume("query_str", song, skip, <<>>, ret, queried)

\* user_query: 'Enter custom query string', then select_result(..., True)
QueryStr ==
    /\ pc = "query_str"
    /\ UNCHANGED <<driverVars, pageVars, title, choice, lib, envVars>>
    /\ \E res \in ManualResults : select_result(res, TRUE, ret, queried)

(* ------------------------------ the update ---------------------------- *)

\* int(song.get('last_played', 0))
LastPlayed(item) ==
    IF item.last_played = None THEN LastPlayedDefault ELSE item.last_played[1]

\* mutant: 'if last_played <= timestamp'
NewerOrEqual(ts, last_played) == last_played <= ts

\* mutant: 'if last_played > timestamp'
NewerReversed(ts, last_played) == last_played > ts

\* 'if last_played < timestamp'
Newer(ts, last_played) == last_played < ts

\* the end of one pass of 'for t in tracks'
Advance ==
    /\ pc' = "track"
    /\ idx' = idx + 1
    /\ song' = NoSong
    /\ title' = <<>>

\* 'if song is not None: ... else: total_fails += 1'
Update ==
    /\ pc = "update"
    /\ UNCHANGED <<driverVars, tracks, total_found, skip, results, choice, ret, queried,
                   lib, envVars>>
    /\ IF song # NoSong
       THEN IF Newer(timestamp, LastPlayed(lib[song]))
            THEN /\ pc' = "store"
                 /\ UNCHANGED <<idx, song, title, not_updated, total_fails>>
            ELSE /\ not_updated' = not_updated + 1
                 /\ Advance
                 /\ UNCHANGED total_fails
       ELSE /\ total_fails' = total_fails + 1
            /\ Advance
            /\ UNCHANGED not_updated

\* mutant: the write also stores the title the event was matched with
StoreTouchesTitle ==
    /\ pc = "store"
    /\ UNCHANGED <<driverVars, tracks, not_updated, total_fails, skip, results, choice,
                   ret, queried, envVars>>
    /\ IF db_locked
       THEN UNCHANGED <<pc, idx, song, title, total_found, lib>>
       ELSE /\ lib' = [lib EXCEPT ![song].last_played = Some(timestamp),
                                  ![song].title = title]
            /\ total_found' = total_found + 1
            /\ Advance

\* mutant: a locked database makes the loop give the event up
StoreGivesUp ==
    /\ pc = "store"
    /\ UNCHANGED <<driverVars, tracks, not_updated, total_fails, skip, results, choice,
                   ret, queried, envVars>>
    /\ IF db_locked
       THEN /\ Advance
            /\ UNCHANGED <<total_found, lib>>
       ELSE /\ lib' = [lib EXCEPT ![song].last_played = Some(timestamp)]
            /\ total_found' = total_found + 1
            /\ Advance

\* one pass of 'while True: try: song[...] = timestamp; song.store()'
Store ==
    /\ pc = "store"
    /\ UNCHANGED <<driverVars, tracks, not_updated, total_fails, skip, results, choice,
                   ret, queried, envVars>>
    /\ IF db_locked
       THEN UNCHANGED <<pc, idx, song, title, total_found, lib>>
       ELSE /\ lib' = [lib EXCEPT ![song].last_played = Some(timestamp)]
            /\ total_found' = total_found + 1
            /\ Advance

(* ----------------------------- environment ---------------------------- *)

\* another process takes or releases the database lock; only song.store()
\* observes the lock, so it is let change while the run is at that call
OtherProcess ==
    /\ pc = "store"
    /\ db_locked' = ~db_locked
    /\ UNCHANGED <<pc, driverVars, pageVars, song, skip, title, results, choice, ret,
                   queried, lib, remote_total, FUZZY_AVAIL, ask_user_query>>

\* new scrobbles arrive at the service while the run is under way; only a
\* fetch observes the total, so it is let grow while the run is about to fetch
Scrobble ==
    /\ pc = "fetch"
    /\ remote_total < MaxPages
    /\ remote_total' = remote_total + 1
    /\ UNCHANGED <<pc, driverVars, pageVars, song, skip, title, results, choice, ret,
                   queried, lib, db_locked, FUZZY_AVAIL, ask_user_query>>

Next ==
    \/ FetchFails
    \/ FetchResponds
    \/ ProcessTracksReturn
    \/ NextTrack
    \/ TryAlbum
    \/ TryArtistTitle
    \/ TryQuote
    \/ TryFuzzyTitle
    \/ TryFuzzyArtist
    \/ TryFuzzyBoth
    \/ TryManual
    \/ Choice
    \/ AskManual
    \/ QueryStr
    \/ Update
    \/ Store
    \/ OtherProcess
    \/ Scrobble

Spec == Init /\ [][Next]_vars

\* the run is one sequential program: a step it can take, it takes; so the
\* retry loop around song.store() goes round again while it is at the write
FairSpec == Spec /\ WF_vars(Store)


(* ------------------------------ properties ---------------------------- *)

Max(a, b) == IF a >= b THEN a ELSE b

Last(log) == log[Len(log)]

\* the run is inside one pass of 'for t in tracks', past the timestamp test
InEvent ==
    pc \in {"s2", "s3", "s4", "s5", "s6", "s7", "s8", "update", "store",
            "choice", "ask_manual", "query_str", "crashed"}

\* the items with the MusicBrainz id of the current event
IdMatches == {id \in ItemIds : trackid # <<>> /\ lib[id].mb_trackid = trackid}

\* C1: a matched item's last_played is written if and only if the event's
\* timestamp is strictly greater than the stored value (0 when unset): a
\* newer timestamp takes the run to the write, any other leaves the catalog
\* alone, the catalog changes only by that write, and no item's last_played
\* ever decreases.
C1_WrittenIffNewer ==
    [][ /\ \A id \in ItemIds : LastPlayed(lib'[id]) >= LastPlayed(lib[id])
        /\ (pc = "update" /\ song # NoSong) =>
              /\ (pc' = "store") <=> (timestamp > LastPlayed(lib[song]))
              /\ lib' = lib
        /\ (pc = "store" /\ pc' # "store") =>
              lib' = [lib EXCEPT ![song].last_played = Some(timestamp)]
        /\ (lib' # lib) =>
              /\ pc = "store"
              /\ timestamp > LastPlayed(lib[song])
              /\ lib'[song].last_played = Some(timestamp) ]_vars

\* an item was advanced by a newer event and a not-newer event left it alone
C1_Witness ==
    /\ pc = "track"
    /\ lib[1].last_played = Some(10)
    /\ total_found = 1
    /\ not_updated = 1

\* C2: when a matched event has been dealt with, the item's last_played is
\* max(previous last_played, event timestamp); an event that repeats the
\* one before it and resolves by identifier to the same item changes nothing
\* in the catalog and is counted as not updated, not as updated.
C2_MaxAndIdempotent ==
    [][ /\ (pc \in {"update", "store"} /\ song # NoSong /\ pc' = "track") =>
              LastPlayed(lib'[song]) = Max(LastPlayed(lib[song]), timestamp)
        /\ (/\ pc = "update"
            /\ song # NoSong
            /\ idx > 1
            /\ tracks[idx] = tracks[idx - 1]
            /\ queried = <<[strategy |-> 1, outcome |-> "match"]>>) =>
              /\ lib' = lib
              /\ pc' = "track"
              /\ not_updated' = not_updated + 1
              /\ total_found' = total_found ]_vars

\* the same event twice in one page: updated once, not updated once
C2_Witness ==
    /\ pc = "track"
    /\ idx = 3
    /\ tracks[1] = tracks[2]
    /\ tracks[1].mbid = Some(<<" ", "m", "1">>)
    /\ lib[1].last_played = Some(10)
    /\ total_found = 1
    /\ not_updated = 1

\* C3: a run whose first response reports fewer than one page never finishes
\* normally: it ends in NO_DATA.  (The service's total only grows, so a run
\* that is done with page_total below 1 had it reported by the first response.)
C3_NoDataIsFatal == (pc = "done") => (page_total >= 1)

\* C4: when the last allowed fetch of a page fails and the service holds a
\* later page, the driver goes on to fetch that page, with the totals so far
\* unchanged.
C4_FailedPageIsSkipped ==
    [][ (/\ pc = "fetch"
         /\ page_current' = page_current + 1
         /\ page_current' < remote_total) =>
            /\ pc' = "fetch"
            /\ UNCHANGED <<found_total, not_updated_total, unknown_total>> ]_vars

\* C5: the strategies queried for one event come in the fixed order 1..8,
\* each queried only after every earlier one yielded neither a match nor a
\* skip, and the fuzzy strategies (5, 6, 7) only when fuzzy matching is
\* available.
C5_CascadeOrder ==
    /\ \A k \in 1..(Len(queried) - 1) :
          /\ queried[k].strategy < queried[k + 1].strategy
          /\ queried[k].outcome = "none"
    /\ \A k \in DOMAIN queried :
          /\ queried[k].strategy \in 1..8
          /\ queried[k].strategy \in {5, 6, 7} => FUZZY_AVAIL

\* every strategy has been queried for one event
C5_Witness ==
    /\ Len(queried) = 8
    /\ queried[8].strategy = 8

\* C6: an event (one that has a timestamp, so that the cascade is entered)
\* whose identifier matches exactly one item resolves to that item at
\* strategy 1: no other strategy is queried and no prompt is shown.
C6_UniqueIdResolvesFirst ==
    (InEvent /\ Cardinality(IdMatches) = 1) =>
        /\ queried = <<[strategy |-> 1, outcome |-> "match"]>>
        /\ song \in IdMatches
        /\ pc \in {"s2", "s3", "s4", "s5", "s6", "s7", "s8", "update", "store"}

C6_Witness ==
    /\ pc = "update"
    /\ Cardinality(IdMatches) = 1
    /\ song = 1

\* the items matching the query of one of the strategies 1..4
Matches(strategy) ==
    CASE strategy = 1 -> IdMatches
      [] strategy = 2 ->
            {id \in ItemIds : /\ SubstringQuery(lib[id], "artist", artist)
                              /\ album # None
                              /\ SubstringQuery(lib[id], "album", album[1])
                              /\ SubstringQuery(lib[id], "title", title)}
      [] strategy \in {3, 4} ->
            {id \in ItemIds : /\ SubstringQuery(lib[id], "artist", artist)
                              /\ SubstringQuery(lib[id], "title", title)}

\* C7: an item chosen for an event without the user having been asked to
\* choose is the only item that matched the query of the strategy that
\* produced it, the identifier match of strategy 1 included.
C7_AmbiguityAlwaysAsked ==
    (/\ InEvent
     /\ song # NoSong
     /\ choice = None
     /\ queried # <<>>
     /\ Last(queried).strategy \in 1..4) =>
        Matches(Last(queried).strategy) = {song}

\* the user answered 'skip' for the current event
Skipped == queried # <<>> /\ Last(queried).outcome = "skip"

\* C8: once the user has answered 'skip' for an event, no strategy is
\* queried and no prompt is shown for it any more, the catalog is not
\* changed, and the event is counted as unknown.
C8_SkipIsTerminal ==
    [][ (InEvent /\ Skipped) =>
            /\ pc \in {"s3", "s4", "s5", "s6", "s7", "s8", "update"}
            /\ song = NoSong
            /\ lib' = lib
            /\ queried' = queried
            /\ pc' \in {"s4", "s5", "s6", "s7", "s8", "update", "track"}
            /\ (pc = "update") =>
                  /\ total_fails' = total_fails + 1
                  /\ UNCHANGED <<total_found, not_updated>> ]_vars

\* a skipped event has been counted as unknown
C8_Witness ==
    /\ pc = "track"
    /\ Skipped
    /\ total_fails = 1
    /\ idx = 2

\* no strategy can find a candidate for the current event
NoCandidates ==
    /\ ~FUZZY_AVAIL
    /\ IdMatches = {}
    /\ \A id \in ItemIds : ~SubstringQuery(lib[id], "artist", artist)

\* C9: an event for which no strategy finds a candidate, with the manual
\* query disabled, is dealt with normally: the run does not fail on it, no
\* item is chosen and nothing is written.
C9_UnmatchedHandled ==
    (InEvent /\ NoCandidates /\ ~ask_user_query) =>
        /\ pc \notin {"crashed", "store", "choice", "ask_manual", "query_str"}
        /\ song = NoSong

\* C10: at the choice prompt with N > 1 candidates, an integer in 0..N-1
\* returns the candidate at that index with skip = false; any other answer
\* but 's' and 'e' prompts again on the same candidates: the run goes on at
\* the same statement and nothing else changes.
C10_ChoiceValidation ==
    [][ (pc = "choice") =>
          /\ Len(results) > 1
          /\ choice' # None
          /\ LET n == ParseInt(choice'[1])
             IN  IF choice'[1] \in {<<"s">>, <<"e">>}
                 THEN TRUE
                 ELSE IF n # None /\ n[1] \in 0..(Len(results) - 1)
                 THEN /\ song' = results[n[1] + 1]
                      /\ skip' = Some(FALSE)
                      /\ pc' = ret
                 ELSE /\ pc' = "choice"
                      /\ UNCHANGED <<results, ret, song, skip, queried, lib, title>>
                      /\ UNCHANGED <<driverVars, pageVars>> ]_vars

\* an answer equal to the number of candidates was rejected
C10_Witness ==
    /\ pc = "choice"
    /\ Len(results) = 2
    /\ choice = Some(<<"2">>)


\* the statement after one of the substring strategies
NextStatement(p) == CASE p = "s2" -> "s3" [] p = "s3" -> "s4" [] p = "s4" -> "s5"

\* the items the substring query issued at statement p matches, for title ttl
SubstringMatches(p, ttl) ==
    {id \in ItemIds : /\ SubstringQuery(lib[id], "artist", artist)
                      /\ SubstringQuery(lib[id], "title", ttl)
                      /\ (p = "s2") =>
                            (album # None /\ SubstringQuery(lib[id], "album", album[1]))}

\* C11: select_result called without manual-query mode (the substring
\* strategies) returns (no match, skip = false) without a prompt for zero
\* candidates and the single candidate without a prompt for exactly one, and
\* prompts only for several; called with manual-query mode (after a custom
\* query) it never returns 'no match' for zero candidates but asks for a
\* manual query, whose result set goes through select_result again.
C11_ZeroOneMany ==
    [][ /\ (pc \in {"s2", "s3", "s4"} /\ Len(queried') = Len(queried) + 1) =>
              LET R == SubstringMatches(pc, title')
              IN  /\ (R = {}) =>
                        /\ pc' = NextStatement(pc)
                        /\ song' = NoSong
                        /\ skip' = Some(FALSE)
                  /\ (Cardinality(R) = 1) =>
                        /\ pc' = NextStatement(pc)
                        /\ song' \in R
                        /\ skip' = Some(FALSE)
                  /\ (Cardinality(R) > 1) =>
                        /\ pc' = "choice"
                        /\ results' = SortedSeq(R)
                        /\ song' = NoSong
        /\ (pc = "query_str") =>
              \/ pc' = "ask_manual" /\ ret' = ret /\ song' = NoSong
              \/ pc' = "choice" /\ ret' = ret /\ Len(results') > 1
              \/ pc' = ret /\ song' # NoSong /\ skip' = Some(FALSE)
        /\ (pc = "ask_manual") =>
              \/ pc' = "query_str" /\ ret' = ret
              \/ pc' = ret /\ song' = NoSong /\ skip' = Some(FALSE) ]_vars

\* a custom query typed at strategy 2's prompt found nothing, and the
\* resolver asks whether to query manually
C11_Witness ==
    /\ pc = "ask_manual"
    /\ ret = "s3"
    /\ choice = Some(<<"e">>)


\* C12: while the database is locked the write is retried in place: the run
\* stays at the same event, nothing is counted and nothing is written; the
\* write that gets through stores the timestamp and adds exactly one to the
\* updated counter; and if the database eventually stays unlocked, a run at
\* the write eventually gets past it.
C12_BusyRetry ==
    /\ [][ (pc = "store") =>
              \/ /\ pc' = "store"
                 /\ UNCHANGED <<idx, tracks, song, lib, total_found, not_updated,
                                total_fails>>
              \/ /\ ~db_locked
                 /\ pc' = "track"
                 /\ idx' = idx + 1
                 /\ lib' = [lib EXCEPT ![song].last_played = Some(timestamp)]
                 /\ total_found' = total_found + 1
                 /\ UNCHANGED <<not_updated, total_fails>> ]_vars
    /\ (<>[](~db_locked)) => ((pc = "store") ~> (pc = "track"))

\* the run is at the write of a second event's timestamp and the database
\* is locked
C12_Witness ==
    /\ pc = "store"
    /\ db_locked
    /\ idx = 2
    /\ total_found = 1


\* C13: pages are handled one at a time in increasing order: a page is only
\* fetched while no page is being processed, the page number only ever
\* grows, by one, either when every event of the fetched page has been dealt
\* with or when the page's last fetch brought no events, and once a page has
\* been processed the driver moves past it.
C13_SequentialPages ==
    [][ /\ (pc = "fetch") => (tracks = <<>> /\ idx = 0)
        /\ (tracks' # tracks /\ tracks' # <<>>) => (pc = "fetch" /\ pc' = "track")
        /\ (page_current' # page_current) =>
              /\ page_current' = page_current + 1
              /\ \/ pc = "track" /\ idx > Len(tracks)
                 \/ pc = "fetch" /\ retry = retry_limit - 1
              /\ tracks' = <<>>
        /\ (pc = "track" /\ pc' \in {"fetch", "done"}) =>
              /\ idx > Len(tracks)
              /\ page_current' = page_current + 1 ]_vars

\* the second page is being processed
C13_Witness ==
    /\ pc = "track"
    /\ page_current = 1
    /\ idx = 2

\* a response from the service has been received
ResponseSeen == page_total # 1 \/ pc \notin {"fetch", "done"}

C15_OnlyLastPlayedOfMatch ==
    [][ /\ \A id \in ItemIds :
              (lib'[id] # lib[id]) =>
                  /\ pc = "store"
                  /\ id = song
                  /\ lib'[id] = [lib[id] EXCEPT !.last_played = lib'[id].last_played]
        /\ (lib' # lib) =>
              /\ song # NoSong
              /\ ~Skipped
              /\ timestamp > LastPlayed(lib[song])
        /\ (pc = "update" /\ pc' = "track") => (lib' = lib) ]_vars

\* item 2 has been written, items 1 and 3 are as they were
C15_Witness ==
    /\ pc = "track"
    /\ lib[2] = [InitialItems[2] EXCEPT !.last_played = Some(5)]
    /\ lib[1] = InitialItems[1]
    /\ lib[3] = InitialItems[3]

\* the page of the run scenario: an event with the identifier of item 1 and
\* a timestamp (10) above the stored one (7), then an event with a timestamp,
\* no identifier and an artist no item has
ScenarioPage ==
    /\ Len(tracks) = 2
    /\ tracks[1] = Track(Some(<<" ", "m", "1">>), Some(<<"a">>), Some(<<"t">>),
                         Some(<<"b">>), <<"1", "0">>)
    /\ ~Truthy(tracks[2].mbid)
    /\ tracks[2].timestamp # <<>>
    /\ \A id \in ItemIds : ~Contains(lib[id].artist, Strip(tracks[2].artist[1]))

\* C16: in the scenario (one page, fuzzy matching unavailable, no manual
\* query) the run does not fail, and when the page has been gone through
\* the tallies are found = 1, not updated = 0, unknown = 1 and item 1 has
\* the event's timestamp.
C16_Scenario ==
    (/\ page_current = 0
     /\ remote_total = 1
     /\ ~FUZZY_AVAIL
     /\ ~ask_user_query
     /\ ScenarioPage) =>
        /\ pc # "crashed"
        /\ (pc = "track" /\ idx > Len(tracks)) =>
              /\ total_found = 1
              /\ not_updated = 0
              /\ total_fails = 1
              /\ lib[1].last_played = Some(10)

\* C17: a page is fetched at most retry_limit times, and the run never ends
\* anywhere but in DONE: it does not fail on the way.
C17_BoundedAndCompletes ==
    /\ retry \in 0..(retry_limit - 1)
    /\ pc # "crashed"

\* C18: what is attempted for an event does not depend on earlier events:
\* when the statements for artist/title and for the manual query are
\* reached with no match and no skip answered for this event, the skip flag
\* is defined and the strategy is attempted.
C18_SkipScopedToEvent ==
    [][ /\ (pc = "s3" /\ song = NoSong /\ ~Skipped) =>
              /\ pc' # "crashed"
              /\ Len(queried') = Len(queried) + 1
        /\ (pc = "s8" /\ song = NoSong /\ ~Skipped /\ ask_user_query) =>
              /\ pc' = "ask_manual" ]_vars

\* the events with a timestamp among the first n of the page
Timestamped(n) == {k \in 1..n : tracks[k].timestamp # <<>>}

Tallied == total_found + not_updated + total_fails

\* C19: between events, and so when process_tracks returns, the three
\* tallies add up to the number of events with a timestamp dealt with so
\* far, each such event adding one to exactly one tally; an event without
\* a timestamp adds to none, is not queried and writes nothing; the run's
\* totals change only when a page has been gone through, by that page's
\* tallies.
C19_Conservation ==
    [][ /\ (pc = "track") => (Tallied = Cardinality(Timestamped(idx - 1)))
        /\ (pc = "track" /\ idx <= Len(tracks) /\ tracks[idx].timestamp = <<>>) =>
              /\ pc' = "track"
              /\ queried' = <<>>
              /\ UNCHANGED <<lib, total_found, not_updated, total_fails>>
        /\ (pc \in {"update", "store"} /\ pc' = "track") =>
              /\ total_found' + not_updated' + total_fails' = Tallied + 1
              /\ total_found' >= total_found
              /\ not_updated' >= not_updated
              /\ total_fails' >= total_fails
        /\ (pc = "track" /\ idx > Len(tracks)) =>
              /\ found_total' = found_total + total_found
              /\ not_updated_total' = not_updated_total + not_updated
              /\ unknown_total' = unknown_total + total_fails
        /\ (<<found_total, not_updated_total, unknown_total>>' #
                <<found_total, not_updated_total, unknown_total>>) =>
              (pc = "track" /\ idx > Len(tracks)) ]_vars

\* a run over two pages ended with one event in each total
C19_Witness ==
    /\ pc = "done"
    /\ found_total = 1
    /\ not_updated_total = 1
    /\ unknown_total = 1

====
